---- MODULE Spec2Model ----
(***************************************************************************)
(* ModelService of src/cli.py: a model handle resolved through three       *)
(* tiers (local cache directory, GCS bucket, HuggingFace origin).          *)
(*                                                                         *)
(* The state is the service object's two fields (model, tokenizer), the    *)
(* local model directory CACHE_DIR/<key>, the bucket objects under         *)
(* models/<key>/, and, for every caller of load_model / generate, the      *)
(* place it has reached in the method.                                     *)
(*                                                                         *)
(* Spec is the service as cli.py wires it: the constructor and the async   *)
(* handlers call into the object without awaiting, so one call runs to its *)
(* end before the next starts.  ThreadedSpec is the same object with its   *)
(* callers on threads: load_model takes no lock, its only guard is the     *)
(* test of self.model at line 77, so the callers' steps interleave at      *)
(* every blocking call (cache check, list, blob download, from_pretrained, *)
(* blob upload).                                                           *)
(*                                                                         *)
(* The calls into transformers and google.cloud.storage are outside the    *)
(* repository: each may succeed or raise, and what from_pretrained writes  *)
(* below cache_dir is whatever the library chooses to write.               *)
(***************************************************************************)
EXTENDS Naturals, FiniteSets, Sequences, TLC

\* Number of callers sharing the service object.
NumCallers == 2
\* Number of files of a model entry besides config.json.
NumExtraFiles == 1

Callers == 1..NumCallers

\* Relative paths are numbered; number 0 is "config.json", the marker file
\* tested at line 149.
Marker == 0
\* Relative paths of the files an entry may consist of.
Files == {Marker} \cup (1..NumExtraFiles)

None == "None"
\* The handle values: which tier's from_pretrained call produced the object.
Handles == {"local", "origin"}

Pcs == {"idle", "check_cache", "list", "download", "bucket_hit",
        "origin_tok", "origin_model", "upload",
        "local_tok", "local_model", "use", "done"}

\* What a caller did and saw during its current call.
Events == {"guard_loaded", "cache_check", "saw_dir", "saw_marker",
           "list", "list_failed", "list_empty", "download", "dl_failed", "dl_ok",
           "origin_tok", "origin_model", "origin_ok", "origin_failed",
           "upload", "upload_failed", "upload_ok",
           "local_tok", "local_model", "local_ok", "local_failed",
           "no_model"}

Results == {"none", "load_ok", "load_raised", "text", "gen_raised"}

VARIABLES
    model,      \* self.model: None or a handle
    tokenizer,  \* self.tokenizer: None or a handle
    dirExists,  \* get_cache_path().exists()
    files,      \* relative paths of the regular files under get_cache_path()
    bucket,     \* relative paths of the objects under models/<key>/
    pc,         \* pc[p]: where caller p is
    op,         \* op[p]: the method caller p called
    items,      \* items[p]: the blob listing (line 162) or the file walk (line 186)
    todo,       \* todo[p]: the part of items[p] the loop has not reached yet
    log,        \* log[p]: what caller p did and saw in this call
    res,        \* res[p]: how the call ended
    failed,     \* a load_model call of this process has raised (lines 128-130)
    layout      \* the names of one entry on disk and in the bucket (see Layout)

\* The service and its callers.
Service == <<model, tokenizer, dirExists, files, bucket, pc, op, items, todo, log,
             res, failed>>

vars == <<Service, layout>>

\* ---- names (lines 141-144, 157-171, 180-191) ----

\* Longest identifier (MODEL_ID) tried.
MaxIdLen == 3

\* A string is the sequence of its characters.
IdChars == {"a", "/", "-"}
Ids == UNION {[1..n -> IdChars] : n \in 0..MaxIdLen}

\* The relative paths of the regular files of an entry: c, d/c and d/e.
RelPaths == {<<"c">>, <<"d", "/", "c">>, <<"d", "/", "e">>}

RECURSIVE model_name_single_dash(_)
model_name_single_dash(id) ==
    IF id = <<>> THEN <<>>
    ELSE (IF Head(id) = "/" THEN <<"-">> ELSE <<Head(id)>>)
             \o model_name_single_dash(Tail(id))

\* Lines 143, 157, 180: MODEL_ID.replace("/", "--").
RECURSIVE model_name(_)
model_name(id) ==
    IF id = <<>> THEN <<>>
    ELSE (IF Head(id) = "/" THEN <<"-", "-">> ELSE <<Head(id)>>)
             \o model_name(Tail(id))

\* The literal "models" of lines 162 and 189.
Models == <<"m", "o", "d", "e", "l", "s">>

\* Line 162: the prefix f"models/{model_name}/" of the listing.
list_prefix(id) == Models \o <<"/">> \o model_name(id) \o <<"/">>

\* Line 189: the object name f"models/{model_name}/{relative_path}".
blob_name(id, rel) == Models \o <<"/">> \o model_name(id) \o <<"/">> \o rel

StartsWith(s, pre) == Len(s) >= Len(pre) /\ SubSeq(s, 1, Len(pre)) = pre

\* Line 162: list_blobs(prefix=...) over the objects of the bucket.
list_blobs(objs, pre) == {o \in objs : StartsWith(o, pre)}

\* The text after the first "/" of s; "none" when s has no "/".
RECURSIVE AfterSlash(_)
AfterSlash(s) ==
    IF s = "none" \/ s = <<>> THEN "none"
    ELSE IF Head(s) = "/" THEN Tail(s) ELSE AfterSlash(Tail(s))

split_once(name) == AfterSlash(name)
\* Line 169: blob.name.split("/", 2)[2]; "none" stands for the IndexError of
\* a name with fewer than two "/".
split_rest(name) == AfterSlash(AfterSlash(name))

\* An object of another model in the same bucket.
ForeignObject == Models \o <<"/", "z", "/", "c">>

LayoutStages == {"off", "start", "resolved", "uploaded", "downloaded", "download_failed"}

\* layout while the service runs.
LayoutOff == [stage |-> "off", ident |-> <<>>, key |-> <<>>, tree |-> {},
              objs |-> {}, out |-> {}]

TypeOK ==
    /\ model \in {None} \cup Handles
    /\ tokenizer \in {None} \cup Handles
    /\ dirExists \in BOOLEAN
    /\ files \subseteq Files
    /\ bucket \subseteq Files
    /\ pc \in [Callers -> Pcs]
    /\ op \in [Callers -> {"none", "load_model", "generate"}]
    /\ items \in [Callers -> SUBSET Files]
    /\ todo \in [Callers -> SUBSET Files]
    /\ log \in [Callers -> SUBSET Events]
    /\ res \in [Callers -> Results]
    /\ failed \in BOOLEAN
    /\ layout.stage \in LayoutStages
    /\ (files # {} => dirExists)

is_model_cached_dir_only == dirExists
\* is_model_cached (lines 146-153).
is_model_cached == dirExists /\ Marker \in files

health_tests_tokenizer == IF tokenizer = None THEN "503" ELSE "healthy"
\* health (lines 247-252): the status code of GET /health.
health == IF model = None THEN "503" ELSE "healthy"

\* The disk and the bucket are whatever earlier processes left; the object is
\* as __init__ leaves it at line 45, before its own load_model call.
Init ==
    /\ model = None
    /\ tokenizer = None
    /\ dirExists \in BOOLEAN
    /\ files \in SUBSET Files
    /\ (files # {} => dirExists)
    /\ bucket \in SUBSET Files
    /\ pc = [p \in Callers |-> "idle"]
    /\ op = [p \in Callers |-> "none"]
    /\ items = [p \in Callers |-> {}]
    /\ todo = [p \in Callers |-> {}]
    /\ log = [p \in Callers |-> {}]
    /\ res = [p \in Callers |-> "none"]
    /\ failed = FALSE
    /\ layout = LayoutOff

Disk == <<dirExists, files>>
Fields == <<model, tokenizer>>
Loop == <<items, todo>>

\* Caller p moves to `to`, having logged `evs`.
Goto(p, to, evs) ==
    /\ pc' = [pc EXCEPT ![p] = to]
    /\ log' = [log EXCEPT ![p] = @ \cup evs]
    /\ UNCHANGED <<failed, layout>>

\* load_model returns normally to caller p, who called method o: line 47 / a
\* direct call is over, generate goes on to line 201.
ReturnOk(p, o, evs) ==
    /\ log' = [log EXCEPT ![p] = @ \cup evs]
    /\ res' = [res EXCEPT ![p] = "load_ok"]
    /\ pc' = [pc EXCEPT ![p] = IF o = "generate" THEN "use" ELSE "done"]
    /\ UNCHANGED <<failed, layout>>

Raise_generate_goes_on(p, evs) ==
    /\ log' = [log EXCEPT ![p] = @ \cup evs]
    /\ pc' = [pc EXCEPT ![p] = IF op[p] = "generate" THEN "use" ELSE "done"]
    /\ res' = [res EXCEPT ![p] = "load_raised"]
    /\ failed' = TRUE
    /\ UNCHANGED layout
\* load_model raises (lines 128-130); generate has no handler around line 199,
\* so the error leaves generate too (and becomes the 500 of line 244).
Raise(p, evs) ==
    /\ log' = [log EXCEPT ![p] = @ \cup evs]
    /\ pc' = [pc EXCEPT ![p] = "done"]
    /\ res' = [res EXCEPT ![p] = "load_raised"]
    /\ failed' = TRUE
    /\ UNCHANGED layout


\* ---- the branches of load_model ----

guard_never_returns == FALSE
\* Line 77: the call returns at once when a model is set.
guard_returns == model # None

after_cache_check_skips_local(cached) == "list"
\* Lines 82, 115: the local tier is read when the entry is judged cached,
\* otherwise the bucket is tried.
after_cache_check(cached) == IF cached THEN "local_tok" ELSE "list"

after_download_always_origin(ok) == "origin_tok"
\* Lines 84, 113: download_from_bucket's return value decides between the
\* origin fetch and the "loaded from bucket" branch.
after_download(ok) == IF ok THEN "bucket_hit" ELSE "origin_tok"

on_list_error_raises == "raise"
\* Lines 174-176: an exception of list_blobs is logged and becomes False.
on_list_error == "miss"

on_download_error_raises == "raise"
\* Lines 174-176: an exception of the download loop is logged and becomes False.
on_download_error == "miss"

on_upload_error_raises == "raise"
\* Lines 103-106: upload_to_bucket re-raises (line 195) and load_model logs a
\* warning and goes on.
on_upload_error == "swallow"

\* ---- load_model (lines 75-130) ----

\* A caller enters load_model, from __init__ (line 47), directly, or through
\* generate (line 199), and runs the guard of lines 77-78.
Call(p, o) ==
    /\ pc[p] = "idle"
    /\ op' = [op EXCEPT ![p] = o]
    /\ IF guard_returns
       THEN ReturnOk(p, o, {"guard_loaded"})
       ELSE Goto(p, "check_cache", {}) /\ UNCHANGED res
    /\ UNCHANGED <<Fields, Disk, bucket, Loop>>

\* Line 82: is_model_cached().
CheckCache(p) ==
    /\ pc[p] = "check_cache"
    /\ Goto(p, after_cache_check(is_model_cached),
            {"cache_check"} \cup (IF dirExists THEN {"saw_dir"} ELSE {})
                            \cup (IF Marker \in files THEN {"saw_marker"} ELSE {}))
    /\ UNCHANGED <<Fields, Disk, bucket, op, Loop, res>>

\* ---- download_from_bucket (lines 155-176) ----

\* Line 162, list_blobs raises.
ListBlobsFails(p) ==
    /\ pc[p] = "list"
    /\ IF on_list_error = "miss"
       THEN Goto(p, after_download(FALSE), {"list", "list_failed"}) /\ UNCHANGED res
       ELSE Raise(p, {"list", "list_failed"})
    /\ UNCHANGED <<Fields, Disk, bucket, op, Loop>>

\* Lines 162-167: the listing is taken; an empty one is a miss (line 165).
ListBlobs(p) ==
    /\ pc[p] = "list"
    /\ IF bucket = {}
       THEN /\ Goto(p, after_download(FALSE), {"list", "list_empty"})
            /\ UNCHANGED Loop
       ELSE /\ Goto(p, "download", {"list"})
            /\ items' = [items EXCEPT ![p] = bucket]
            /\ todo' = [todo EXCEPT ![p] = bucket]
    /\ UNCHANGED <<Fields, Disk, bucket, op, res>>

\* Lines 168-173: one blob is written below the model directory; after the
\* last one the function returns True.  The listing's order is the store's,
\* so any remaining blob may be the next.
DownloadBlob(p) ==
    /\ pc[p] = "download"
    /\ \E b \in todo[p] :
        /\ dirExists' = TRUE
        /\ files' = files \cup {b}
        /\ todo' = [todo EXCEPT ![p] = @ \ {b}]
        /\ IF todo[p] = {b}
           THEN Goto(p, after_download(TRUE), {"download", "dl_ok"})
           ELSE Goto(p, "download", {"download"})
    /\ UNCHANGED <<Fields, bucket, op, items, res>>

\* Lines 170-171 raise at some blob: the directory may have been made and the
\* file may have been left behind, and the blobs written before stay.
DownloadBlobFails(p) ==
    /\ pc[p] = "download"
    /\ \E b \in todo[p], d \in BOOLEAN :
      \E w \in {{}, {b}} :
        /\ (w # {} => d)
        /\ dirExists' = (dirExists \/ d)
        /\ files' = files \cup w
    /\ IF on_download_error = "miss"
       THEN Goto(p, after_download(FALSE), {"download", "dl_failed"}) /\ UNCHANGED res
       ELSE Raise(p, {"download", "dl_failed"})
    /\ UNCHANGED <<Fields, bucket, op, Loop>>

\* Lines 113-114, then line 127: nothing is loaded in this branch, and
\* self.model.device raises AttributeError while self.model is None.
BucketHit(p) ==
    /\ pc[p] = "bucket_hit"
    /\ IF model = None
       THEN Raise(p, {"no_model"})
       ELSE ReturnOk(p, op[p], {})
    /\ UNCHANGED <<Fields, Disk, bucket, op, Loop>>

\* ---- the origin fetch (lines 88-112) ----

\* Lines 89-91: AutoTokenizer.from_pretrained(MODEL_ID, cache_dir=...).
OriginTokenizer(p) ==
    /\ pc[p] = "origin_tok"
    /\ \E w \in (SUBSET Files) \ {{}} :
        /\ files' = files \cup w
        /\ dirExists' = TRUE
    /\ tokenizer' = "origin"
    /\ Goto(p, "origin_model", {"origin_tok"})
    /\ UNCHANGED <<model, bucket, op, Loop, res>>

\* Lines 89-91 raise; lines 107-112 and 128-130 re-raise.
OriginTokenizerFails(p) ==
    /\ pc[p] = "origin_tok"
    /\ \E w \in SUBSET Files :
        /\ files' = files \cup w
        /\ dirExists' = (dirExists \/ w # {})
    /\ Raise(p, {"origin_tok", "origin_failed"})
    /\ UNCHANGED <<Fields, bucket, op, Loop>>

\* Lines 94-104: AutoModelForCausalLM.from_pretrained(MODEL_ID, cache_dir=...),
\* then upload_to_bucket starts its walk of the model directory (line 186).
OriginModel(p) ==
    /\ pc[p] = "origin_model"
    /\ \E w \in (SUBSET Files) \ {{}} :
        /\ files' = files \cup w
        /\ dirExists' = TRUE
        /\ items' = [items EXCEPT ![p] = files \cup w]
        /\ todo' = [todo EXCEPT ![p] = files \cup w]
    /\ model' = "origin"
    /\ Goto(p, "upload", {"origin_model", "origin_ok", "upload"})
    /\ UNCHANGED <<tokenizer, bucket, op, res>>

OriginModelFails_uploads(p) ==
    /\ pc[p] = "origin_model"
    /\ \E w \in SUBSET Files :
        /\ files' = files \cup w
        /\ dirExists' = (dirExists \/ w # {})
    /\ Goto(p, "upload", {"origin_model", "origin_failed", "upload"})
    /\ UNCHANGED <<Fields, bucket, op, Loop, res>>
\* Lines 94-99 raise; the tokenizer assigned at line 89 stays.
OriginModelFails(p) ==
    /\ pc[p] = "origin_model"
    /\ \E w \in SUBSET Files :
        /\ files' = files \cup w
        /\ dirExists' = (dirExists \/ w # {})
    /\ Raise(p, {"origin_model", "origin_failed"})
    /\ UNCHANGED <<Fields, bucket, op, Loop>>

\* ---- upload_to_bucket (lines 178-195) ----

\* Lines 186-191: one file of the walk becomes the object models/<key>/<rel>.
UploadFile(p) ==
    /\ pc[p] = "upload"
    /\ \E f \in todo[p] :
        /\ bucket' = bucket \cup {f}
        /\ todo' = [todo EXCEPT ![p] = @ \ {f}]
    /\ Goto(p, "upload", {})
    /\ UNCHANGED <<Fields, Disk, op, items, res>>

\* Line 190 raises at some file: lines 193-195 re-raise, lines 105-106 catch.
UploadFileFails(p) ==
    /\ pc[p] = "upload"
    /\ todo[p] # {}
    /\ IF on_upload_error = "swallow"
       THEN ReturnOk(p, op[p], {"upload_failed"})
       ELSE Raise(p, {"upload_failed"})
    /\ UNCHANGED <<Fields, Disk, bucket, op, Loop>>

\* Line 192, then line 127 with the model set at line 94.
UploadDone(p) ==
    /\ pc[p] = "upload"
    /\ todo[p] = {}
    /\ ReturnOk(p, op[p], {"upload_ok"})
    /\ UNCHANGED <<Fields, Disk, bucket, op, Loop>>

\* ---- the local read (lines 115-125) ----

LocalTokenizer_unassigned(p) ==
    /\ pc[p] = "local_tok"
    /\ Goto(p, "local_model", {"local_tok"})
    /\ UNCHANGED <<model, tokenizer, Disk, bucket, op, Loop, res>>
\* Lines 117-119.
LocalTokenizer(p) ==
    /\ pc[p] = "local_tok"
    /\ tokenizer' = "local"
    /\ Goto(p, "local_model", {"local_tok"})
    /\ UNCHANGED <<model, Disk, bucket, op, Loop, res>>

\* Lines 117-119 raise; lines 128-130 re-raise.
LocalTokenizerFails(p) ==
    /\ pc[p] = "local_tok"
    /\ Raise(p, {"local_tok", "local_failed"})
    /\ UNCHANGED <<Fields, Disk, bucket, op, Loop>>

\* Lines 120-127.
LocalModel(p) ==
    /\ pc[p] = "local_model"
    /\ model' = "local"
    /\ ReturnOk(p, op[p], {"local_model", "local_ok"})
    /\ UNCHANGED <<tokenizer, Disk, bucket, op, Loop>>

LocalModelFails_falls_back(p) ==
    /\ pc[p] = "local_model"
    /\ Goto(p, "list", {"local_model", "local_failed"})
    /\ UNCHANGED <<Fields, Disk, bucket, op, Loop, res>>
\* Lines 120-125 raise; the tokenizer assigned at line 117 stays.
LocalModelFails(p) ==
    /\ pc[p] = "local_model"
    /\ Raise(p, {"local_model", "local_failed"})
    /\ UNCHANGED <<Fields, Disk, bucket, op, Loop>>

\* ---- generate (lines 197-219) ----

\* Lines 201-219: tokenise, infer, decode.  Calling a None tokenizer or
\* reading None.device raises; otherwise the library calls return or raise.
Use(p) ==
    /\ pc[p] = "use"
    /\ \E r \in {"text", "gen_raised"} :
        /\ (tokenizer = None \/ model = None) => r = "gen_raised"
        /\ res' = [res EXCEPT ![p] = r]
    /\ pc' = [pc EXCEPT ![p] = "done"]
    /\ UNCHANGED <<Fields, Disk, bucket, op, Loop, log, failed, layout>>

\* The call is over and the caller has its result.
Return(p) ==
    /\ pc[p] = "done"
    /\ pc' = [pc EXCEPT ![p] = "idle"]
    /\ op' = [op EXCEPT ![p] = "none"]
    /\ items' = [items EXCEPT ![p] = {}]
    /\ todo' = [todo EXCEPT ![p] = {}]
    /\ log' = [log EXCEPT ![p] = {}]
    /\ res' = [res EXCEPT ![p] = "none"]
    /\ UNCHANGED <<Fields, Disk, bucket, failed, layout>>

\* One step of caller p inside a call.
Run(p) ==
    \/ CheckCache(p)
    \/ ListBlobsFails(p)
    \/ ListBlobs(p)
    \/ DownloadBlob(p)
    \/ DownloadBlobFails(p)
    \/ BucketHit(p)
    \/ OriginTokenizer(p)
    \/ OriginTokenizerFails(p)
    \/ OriginModel(p)
    \/ OriginModelFails(p)
    \/ UploadFile(p)
    \/ UploadFileFails(p)
    \/ UploadDone(p)
    \/ LocalTokenizer(p)
    \/ LocalTokenizerFails(p)
    \/ LocalModel(p)
    \/ LocalModelFails(p)
    \/ Use(p)
    \/ Return(p)

Methods == {"load_model", "generate"}

\* Lines 223, 232-244: the constructor runs at import and the handlers are
\* coroutines that never await, so a call starts only when no other call is
\* under way.
Serve(p, o) ==
    /\ \A q \in Callers \ {p} : pc[q] = "idle"
    /\ Call(p, o)

Next ==
    \E p \in Callers :
        \/ \E o \in Methods : Serve(p, o)
        \/ Run(p)

Spec == Init /\ [][Next]_vars

\* The callers on threads: nothing in load_model (lines 75-130) keeps a second
\* caller out while a first one is between line 77 and its assignment of
\* self.model.
ThreadedNext ==
    \E p \in Callers :
        \/ \E o \in Methods : Call(p, o)
        \/ Run(p)

ThreadedSpec == Init /\ [][ThreadedNext]_vars

\* ---- the layout of one entry ----

\* An identifier, the files of its local entry, and a bucket that holds at
\* most another model's object.
LayoutInit ==
    /\ model = None
    /\ tokenizer = None
    /\ dirExists = FALSE
    /\ files = {}
    /\ bucket = {}
    /\ pc = [p \in Callers |-> "idle"]
    /\ op = [p \in Callers |-> "none"]
    /\ items = [p \in Callers |-> {}]
    /\ todo = [p \in Callers |-> {}]
    /\ log = [p \in Callers |-> {}]
    /\ res = [p \in Callers |-> "none"]
    /\ failed = FALSE
    /\ \E id \in Ids, tree \in SUBSET RelPaths, objs \in SUBSET {ForeignObject} :
        layout = [stage |-> "start", ident |-> id, key |-> <<>>, tree |-> tree,
                  objs |-> objs, out |-> {}]

\* Lines 141-144: get_cache_path names the model directory.
ResolveKey ==
    /\ layout.stage = "start"
    /\ layout' = [layout EXCEPT !.stage = "resolved", !.key = model_name(layout.ident)]
    /\ UNCHANGED Service

\* Lines 180-191: every regular file below the model directory is uploaded
\* under its object name.
UploadTree ==
    /\ layout.stage = "resolved"
    /\ layout' = [layout EXCEPT
                     !.stage = "uploaded",
                     !.objs = @ \cup {blob_name(layout.ident, rel) : rel \in layout.tree}]
    /\ UNCHANGED Service

\* Lines 157-173: the objects under the prefix are written into an empty
\* model directory, each at the path left of its name by line 169.
DownloadTree ==
    /\ layout.stage = "uploaded"
    /\ LET blobs == list_blobs(layout.objs, list_prefix(layout.ident))
           paths == {split_rest(b) : b \in blobs}
       IN  IF "none" \in paths
           THEN layout' = [layout EXCEPT !.stage = "download_failed"]
           ELSE layout' = [layout EXCEPT !.stage = "downloaded", !.out = paths]
    /\ UNCHANGED Service

LayoutNext == ResolveKey \/ UploadTree \/ DownloadTree

LayoutSpec == LayoutInit /\ [][LayoutNext]_vars

\* ---- properties ----

Ended(p) == pc[p] \in {"use", "done"}
Loaded == model # None /\ tokenizer # None
JudgedCached(p) == {"saw_dir", "saw_marker"} \subseteq log[p]
BucketEvents == {"list", "list_failed", "list_empty", "download", "dl_failed", "dl_ok"}
OriginEvents == {"origin_tok", "origin_model", "origin_ok", "origin_failed",
                 "upload", "upload_failed", "upload_ok"}
BucketPcs == {"list", "download", "bucket_hit"}
OriginPcs == {"origin_tok", "origin_model", "upload"}
LocalPcs == {"local_tok", "local_model"}

\* C1 as stated: a load that finds the local entry valid contacts neither the
\* bucket nor the origin, and ends Loaded.
C1_LocalHitEndsLoaded ==
    \A p \in Callers :
        JudgedCached(p) =>
            /\ log[p] \cap (BucketEvents \cup OriginEvents) = {}
            /\ pc[p] \notin BucketPcs \cup OriginPcs
            /\ (Ended(p) => res[p] # "load_raised" /\ Loaded)

\* C1 as amended: a load that finds the local entry valid contacts neither the
\* bucket nor the origin; it ends Loaded when both local reads succeed, and
\* raises to its caller when one of them fails.
C1_LocalHitLocalOnly ==
    \A p \in Callers :
        JudgedCached(p) =>
            /\ log[p] \cap (BucketEvents \cup OriginEvents) = {}
            /\ pc[p] \notin BucketPcs \cup OriginPcs
            /\ (Ended(p) =>
                  IF "local_failed" \in log[p]
                  THEN res[p] = "load_raised"
                  ELSE "local_ok" \in log[p] /\ res[p] # "load_raised" /\ Loaded)

\* A local hit with the key present in the bucket too has ended Loaded.
C1_Witness ==
    \E p \in Callers :
        /\ pc[p] = "done" /\ JudgedCached(p) /\ "local_ok" \in log[p]
        /\ bucket # {} /\ Loaded

\* C2: a load with no valid local entry whose bucket download succeeds and
\* leaves a valid local entry ends Loaded, without an error.
C2_RemoteHitEndsLoaded ==
    \A p \in Callers :
        (Ended(p) /\ ~JudgedCached(p) /\ "dl_ok" \in log[p] /\ is_model_cached) =>
            res[p] # "load_raised" /\ Loaded

\* C3: in a load attempt whose download_from_bucket returns True, neither the
\* origin fetch nor the upload is executed.
C3_RemoteHitNeverOrigin ==
    \A p \in Callers :
        "dl_ok" \in log[p] =>
            /\ log[p] \cap OriginEvents = {}
            /\ pc[p] \notin OriginPcs

\* A load attempt whose download returned True is over.
C3_Witness ==
    \E p \in Callers : pc[p] = "done" /\ "dl_ok" \in log[p]


\* C4: a load that starts with no valid local entry and an empty bucket
\* listing, and whose origin fetch and upload both succeed, ends Loaded with a
\* valid local entry and with every file of the entry in the bucket.
C4_ColdMissWriteBack ==
    \A p \in Callers :
        (Ended(p) /\ ~JudgedCached(p)
                  /\ {"list_empty", "origin_ok", "upload_ok"} \subseteq log[p]) =>
            /\ res[p] # "load_raised" /\ Loaded
            /\ is_model_cached
            /\ items[p] \subseteq bucket /\ bucket # {}

\* C5: when the origin fetch succeeds and the upload then fails, load_model
\* still returns normally with model and tokenizer set.
C5_NonFatalUpload ==
    \A p \in Callers :
        "upload_failed" \in log[p] =>
            /\ "origin_ok" \in log[p]
            /\ Ended(p) /\ res[p] # "load_raised"
            /\ Loaded

\* A generate call whose load fetched from the origin and failed to upload has
\* returned text.
C5_Witness ==
    \E p \in Callers :
        /\ pc[p] = "done" /\ op[p] = "generate" /\ res[p] = "text"
        /\ {"origin_ok", "upload_failed"} \subseteq log[p]

\* Caller p takes a step.
Steps(p) == pc'[p] # pc[p] \/ todo'[p] # todo[p] \/ log'[p] # log[p]

\* C6: once a model is set it stays set, and a call that starts after that
\* returns at the guard: it checks no cache, calls neither bucket nor origin,
\* and leaves model, tokenizer, disk and bucket as they are.
C6_IdempotentLoaded ==
    [][/\ (model # None => model' # None /\ tokenizer' # None)
       /\ \A p \in Callers :
            /\ (pc[p] = "idle" /\ Steps(p) /\ model # None) =>
                   /\ log'[p] = {"guard_loaded"}
                   /\ Ended(p)'
                   /\ UNCHANGED <<Fields, Disk, bucket>>
            /\ ("guard_loaded" \in log[p] /\ Steps(p)) =>
                   /\ log'[p] \subseteq {"guard_loaded"}
                   /\ pc'[p] \in {"done", "idle"}
                   /\ UNCHANGED <<Fields, Disk, bucket>>]_vars

\* A generate call that started on a loaded service has returned text.
C6_Witness ==
    \E p \in Callers :
        /\ pc[p] = "done" /\ op[p] = "generate" /\ res[p] = "text"
        /\ log[p] = {"guard_loaded"}

InLoadSequence(p) == pc[p] \in {"check_cache"} \cup LocalPcs \cup BucketPcs \cup OriginPcs

\* C7: no two callers are inside the load sequence (cache check, bucket
\* download, origin fetch, write-back) at the same time.
C7_SingleFlight ==
    \A p, q \in Callers :
        p # q => ~(InLoadSequence(p) /\ InLoadSequence(q))

TookLocalPath(p) == pc[p] \in LocalPcs \/ "local_tok" \in log[p]
TookBucketPath(p) == pc[p] = "list" \/ "list" \in log[p]

\* C8: a load reads the local files exactly when its cache check found both
\* the model directory and config.json in it; a directory without config.json
\* is a miss, and the load goes to the bucket tier.
C8_CacheValidity ==
    \A p \in Callers :
        "cache_check" \in log[p] =>
            /\ TookLocalPath(p) <=> JudgedCached(p)
            /\ TookBucketPath(p) <=> ~JudgedCached(p)

\* A load found the directory without config.json and listed the bucket.
C8_Witness ==
    \E p \in Callers :
        /\ "saw_dir" \in log[p] /\ "saw_marker" \notin log[p]
        /\ "list" \in log[p] /\ ~TookLocalPath(p)

BucketFailed(p) == log[p] \cap {"list_failed", "dl_failed"} # {}

\* C9: when the listing fails or a blob download fails, download_from_bucket
\* returns False without raising and the same attempt goes on to the origin
\* fetch; the attempt raises only if the origin fetch fails.
C9_RemoteFailureDegrades ==
    \A p \in Callers :
        BucketFailed(p) =>
            /\ pc[p] = "origin_tok" \/ "origin_tok" \in log[p]
            /\ "no_model" \notin log[p]
            /\ (res[p] = "load_raised" => "origin_failed" \in log[p])

\* A download failed after a blob had been written, and the attempt has
\* fetched the tokenizer from the origin.
C9_Witness ==
    \E p \in Callers :
        /\ pc[p] = "origin_model" /\ "dl_failed" \in log[p]
        /\ todo[p] # items[p]

FailEvents == {"list_failed", "dl_failed", "origin_failed", "upload_failed",
               "local_failed"}

\* Caller p's call of load_model ends in this step.
LoadEnds(p) == ~Ended(p) /\ pc[p] # "idle" /\ Ended(p)'

\* C11: a failed load leaves the service unloaded, the next call runs the
\* chain again from the local-cache check, and when none of the calls to the
\* tiers fails in that call it ends Loaded.
C11_FailedNotSticky ==
    /\ [](\A p \in Callers :
            /\ res[p] = "load_raised" => model = None
            /\ (failed /\ model = None /\ pc[p] \notin {"idle", "done"}) =>
                   pc[p] = "check_cache" \/ "cache_check" \in log[p])
    /\ [][\A p \in Callers :
            (failed /\ LoadEnds(p) /\ log'[p] \cap FailEvents = {}) =>
                res'[p] # "load_raised" /\ Loaded']_vars


\* C12: GET /health answers 503 as long as no load has succeeded and healthy
\* from the step that sets the model onward: a call that returned normally
\* leaves it healthy, a load that raised leaves it 503, it turns healthy only
\* in the step of a local or origin read that sets the model, and it never
\* turns back.
C12_HealthTracksLoad ==
    /\ [](\A p \in Callers :
            /\ (Ended(p) /\ res[p] # "load_raised") => health = "healthy"
            /\ res[p] = "load_raised" => health = "503")
    /\ [][/\ health = "healthy" => health' = "healthy"
          /\ (health = "503" /\ health' = "healthy") =>
                \E p \in Callers :
                    /\ pc[p] \in {"local_model", "origin_model"}
                    /\ log'[p] \cap {"local_ok", "origin_ok"} # {}]_vars

\* After a load that raised, a later load has succeeded and health is healthy.
C12_Witness ==
    \E p \in Callers :
        /\ failed /\ pc[p] = "done" /\ res[p] = "load_ok"
        /\ "cache_check" \in log[p] /\ health = "healthy"

\* C13: generate runs load_model first: on an unloaded service the call goes
\* through the cache check, it reaches tokenisation only with model and
\* tokenizer set, and a load that raised ends the call with that error.
C13_LazyLoadOnUse ==
    \A p \in Callers :
        op[p] = "generate" =>
            /\ pc[p] = "use" => Loaded /\ res[p] = "load_ok"
            /\ res[p] \in {"text", "gen_raised"} => Loaded /\ pc[p] = "done"
            /\ res[p] = "load_raised" => pc[p] = "done"
            /\ (pc[p] # "idle" /\ "guard_loaded" \notin log[p]) =>
                   pc[p] = "check_cache" \/ "cache_check" \in log[p]

\* A generate call on an unloaded service has loaded the model and returned text.
C13_Witness ==
    \E p \in Callers :
        /\ pc[p] = "done" /\ op[p] = "generate" /\ res[p] = "text"
        /\ "cache_check" \in log[p]

\* ---- C14 ----

Slashes(id) == Cardinality({i \in DOMAIN id : id[i] = "/"})

\* The place in the key of character i of the identifier.
KeyPos(id, i) == i + Cardinality({j \in 1..(i - 1) : id[j] = "/"})

\* The identifier with "-" for every "/".
Dashed(id) == [i \in DOMAIN id |-> IF id[i] = "/" THEN "-" ELSE id[i]]

\* C14: the key resolved for an identifier is the identifier with "--" in the
\* place of every "/" and every other character kept, so it holds no "/"; the
\* listing prefix and every object name are built on that same key; and the key
\* of an identifier with a "/" differs from the key of the same identifier
\* written with "-".
C14_KeyDerivation ==
    layout.stage \in {"resolved", "uploaded", "downloaded", "download_failed"} =>
        LET id == layout.ident
            key == layout.key
        IN  /\ Len(key) = Len(id) + Slashes(id)
            /\ \A i \in DOMAIN id :
                   IF id[i] = "/"
                   THEN key[KeyPos(id, i)] = "-" /\ key[KeyPos(id, i) + 1] = "-"
                   ELSE key[KeyPos(id, i)] = id[i]
            /\ \A i \in DOMAIN key : key[i] # "/"
            /\ list_prefix(id) = Models \o <<"/">> \o key \o <<"/">>
            /\ \A rel \in RelPaths :
                   blob_name(id, rel) = Models \o <<"/">> \o key \o <<"/">> \o rel
            /\ Slashes(id) > 0 => key # model_name(Dashed(id))

\* The key of an identifier with several "/" has been resolved.
C14_Witness == layout.stage = "resolved" /\ Slashes(layout.ident) >= 2

\* ---- C15 ----

\* C15: when download_from_bucket has returned True and the model directory
\* holds no config.json, the attempt treats the entry as a miss and goes on to
\* the origin fetch.
C15_MarkerDecidesAfterDownload ==
    \A p \in Callers :
        ("dl_ok" \in log[p] /\ ~is_model_cached) =>
            pc[p] \in OriginPcs \/ log[p] \cap OriginEvents # {}

\* ---- C16 ----

\* C16: a load that judged the local entry cached and whose read of it fails
\* ends with the error raised to the caller: it has called neither the bucket
\* nor the origin, no step of the local read changes the model directory or
\* the bucket, and the entry is still judged cached afterwards, so the next
\* attempt reads the same files again.
C16_LocalCorruptionNotRepaired ==
    /\ [](\A p \in Callers :
            "local_failed" \in log[p] =>
                /\ pc[p] = "done" /\ res[p] = "load_raised"
                /\ JudgedCached(p)
                /\ log[p] \cap (BucketEvents \cup OriginEvents) = {}
                /\ is_model_cached)
      /\ [][\A p \in Callers :
              (pc[p] \in LocalPcs /\ Steps(p)) => UNCHANGED <<Disk, bucket>>]_vars

\* A read of a cached entry has failed while the bucket holds the model.
C16_Witness ==
    \E p \in Callers :
        /\ "local_failed" \in log[p] /\ res[p] = "load_raised"
        /\ Marker \in bucket

\* ---- C17 ----

UploadEvents == {"upload", "upload_failed", "upload_ok"}

\* C17: when the origin fetch of the tokenizer or of the model fails, the
\* call ends with the error raised to the caller, no model is set and health
\* answers 503, and the attempt has not started an upload; the failing step
\* leaves the bucket as it is.
C17_OriginFailurePropagates ==
    /\ [](\A p \in Callers :
            "origin_failed" \in log[p] =>
                /\ pc[p] = "done" /\ res[p] = "load_raised"
                /\ model = None /\ health = "503"
                /\ log[p] \cap UploadEvents = {})
    /\ [][\A p \in Callers :
            ("origin_failed" \notin log[p] /\ "origin_failed" \in log'[p]) =>
                /\ pc[p] \in {"origin_tok", "origin_model"}
                /\ UNCHANGED <<bucket, model>>]_vars

\* The origin fetch of the model has failed after the tokenizer was fetched.
C17_Witness ==
    \E p \in Callers :
        /\ "origin_failed" \in log[p] /\ "origin_model" \in log[p]
        /\ tokenizer = "origin" /\ res[p] = "load_raised"

\* ---- C18 ----

\* C18: after upload_to_bucket the bucket holds, besides what it held before,
\* exactly one object models/<key>/<relative path> for every file of the
\* model directory; download_from_bucket into an empty model directory then
\* does not fail and writes exactly the relative paths that were uploaded.
C18_LayoutRoundTrip ==
    LET pre == Models \o <<"/">> \o layout.key \o <<"/">>
    IN  /\ layout.stage # "download_failed"
        /\ layout.stage \in {"uploaded", "downloaded"} =>
               /\ \A rel \in layout.tree : pre \o rel \in layout.objs
               /\ \A o \in layout.objs \ {ForeignObject} :
                      \E rel \in layout.tree : o = pre \o rel
        /\ layout.stage = "downloaded" => layout.out = layout.tree

\* A tree of several files, one of them in a subdirectory, has gone through
\* a bucket that also holds another model's object, under an identifier that
\* has a "/".
C18_Witness ==
    /\ layout.stage = "downloaded"
    /\ Cardinality(layout.tree) >= 2
    /\ ForeignObject \in layout.objs
    /\ Slashes(layout.ident) >= 1
    /\ layout.out # {}

\* ---- C19 ----

\* C19: when an attempt is over and the model directory is judged cached on
\* a config.json that this attempt's bucket download wrote, every blob of
\* that download's listing is in the model directory.
C19_NoHitOnPartialEntry ==
    \A p \in Callers :
        (/\ pc[p] = "done"
         /\ "download" \in log[p]
         /\ Marker \in items[p] \ todo[p]
         /\ is_model_cached) => items[p] \subseteq files

\* ---- C20 ----

\* C20: in every state, with the callers' steps interleaved in any order and
\* after attempts that raised midway, a set model comes with a set tokenizer,
\* and a caller that returned at the guard of load_model finds a tokenizer.
C20_HandleConsistency ==
    /\ model # None => tokenizer # None
    /\ \A p \in Callers : "guard_loaded" \in log[p] => tokenizer # None

\* After a failed attempt, one caller has returned at the guard while another
\* is still inside its own load.
C20_Witness ==
    \E p, q \in Callers :
        /\ "guard_loaded" \in log[p]
        /\ InLoadSequence(q)
        /\ failed

====
